---- MODULE Spec2Model ----
(***************************************************************************)
(* A model of SBTA/Data_Manip.py: the Data_Manipulator class.  Python      *)
(* objects live in a heap (a sequence of objects addressed by position);   *)
(* numpy arrays and lists are heap objects, so that aliasing, copies and   *)
(* in-place writes are what the code makes them.  One action is one call   *)
(* of a public method on a constructed manipulator.                        *)
(***************************************************************************)
EXTENDS Integers, Sequences, FiniteSets, TLC

VARIABLES
    heap,   \* the objects alive after the last call
    pre,    \* the heap as it was when the last call started
    self,   \* the manipulator's attributes
    op,     \* the method called last
    args,   \* the arguments it was called with
    ret,    \* the value it returned
    exc,    \* the exception it raised, "none" when it returned
    stdout, \* what the last call printed
    saved   \* what np.save last wrote

vars == <<heap, pre, self, op, args, ret, exc, stdout, saved>>

(***************************************************************************)
(* Bounds of the model.                                                    *)
(***************************************************************************)
MaxRes == 2     \* residues (data rows and columns) of an interaction matrix
MaxLabel == 3   \* residue labels are 1..MaxLabel
MaxRep == 2     \* replicates of a replicate array
MaxFrames == 2  \* frames of a replicate
MaxN == 3       \* the cluster count n a caller asks for
MaxNorm == 2    \* normalizations of one frame, after which no call is made

(***************************************************************************)
(* Python values: None, a string, a number, a reference to a heap object.  *)
(***************************************************************************)
None == [t |-> "none"]
Ref(r) == [t |-> "ref", r |-> r]
Str(s) == [t |-> "str", s |-> s]
Num(n) == [t |-> "num", n |-> n]
NewList(s) == [t |-> "list", v |-> s]   \* a list the caller builds for the call

IsNone(v) == v.t = "none"

Result(h, v, e) == [h |-> h, ret |-> v, exc |-> e]

\* F applied to the value of v, v being computed once
Strict(v, F(_)) == CHOOSE y \in {F(x) : x \in {v}} : TRUE

Alloc(h, obj) == [h |-> Append(h, obj), ref |-> Len(h) + 1]

Range(s) == {s[i] : i \in 1..Len(s)}

RECURSIVE Compress(_, _)
\* numpy boolean-mask indexing along one axis: the entries whose mask is True
Compress(s, mask) ==
    IF s = <<>> THEN <<>>
    ELSE (IF Head(mask) THEN <<Head(s)>> ELSE <<>>) \o Compress(Tail(s), Tail(mask))

\* np.isin(element, test_elements)
isin(element, test_elements) ==
    [i \in 1..Len(element) |-> element[i] \in Range(test_elements)]

NRows(M) == Len(M)
NCols(M) == IF M = <<>> THEN 0 ELSE Len(M[1])

\* array[:, 0] and array[0, :]
Column0(M) == [i \in 1..Len(M) |-> M[i][1]]
Row0(M) == M[1]

\* the directive, compared as the claims name it
IsALL_exact(v) == v = Str("ALL")

IsALL_never(v) == FALSE

\* residues_to_filter == "ALL"
IsALL(v) == v.t = "str" /\ v.s = "ALL"

PrependZero_missing(h, r) == Alloc(h, h[r])

PrependZero_inplace(h, r) == [h |-> [h EXCEPT ![r] = <<0>> \o @], ref |-> r]

\* residues_to_filter = [0] + residues_to_filter : a new list object
PrependZero(h, r) == Alloc(h, <<0>> \o h[r])

\* residues_to_filter.pop()
Pop(h, r) == [h EXCEPT ![r] = SubSeq(@, 1, Len(@) - 1)]

\* array[row_mask, :][:, col_mask]
MaskRowsCols(M, row_mask, col_mask) ==
    LET filtered_rows == Compress(M, row_mask)
    IN  [i \in 1..Len(filtered_rows) |-> Compress(filtered_rows[i], col_mask)]

filter_array(h, slf, array_arg, rtf_arg) ==
    LET residues_to_filter == IF ~IsNone(rtf_arg) THEN rtf_arg ELSE slf.residues_to_filter
        array == IF ~IsNone(array_arg) THEN array_arg ELSE slf.array_one
    IN  IF IsALL(residues_to_filter) THEN Result(h, array, "none")
        ELSE IF residues_to_filter.t # "ref" THEN Result(h, None, "TypeError")
        ELSE Strict(PrependZero(h, residues_to_filter.r), LAMBDA p :
             IF array.t # "ref" THEN Result(p.h, None, "TypeError")
             ELSE LET M == p.h[array.r]
                  IN  IF NRows(M) = 0 THEN Result(p.h, None, "IndexError")
                      ELSE LET row_mask == isin(Column0(M), p.h[p.ref])
                               col_mask == isin(Row0(M), p.h[p.ref])
                           IN  Strict(Alloc(p.h, MaskRowsCols(M, row_mask, col_mask)), LAMBDA f :
                                   Result(Pop(f.h, p.ref), Ref(f.ref), "none")))

\* np.copy(array)
NpCopy(h, r) == Alloc(h, h[r])

\* the shape of array[1:, 1:]
DataRows(M) == IF NRows(M) = 0 THEN 0 ELSE NRows(M) - 1
DataCols(M) == IF NCols(M) = 0 THEN 0 ELSE NCols(M) - 1

\* numpy broadcasting of the subtrahend (size d1) into the target's size d2
Broadcasts(d1, d2) == d1 = d2 \/ d1 = 1

\* the first index of the slice [1:, 1:], counted from 1
FirstData == 2

SubtractData_nosub(D, M1, M2) == D

\* difference_array[1:,1:] = array_two[1:,1:] - array_one[1:,1:]
SubtractData(D, M1, M2) ==
    [i \in 1..Len(D) |->
        [j \in 1..Len(D[i]) |->
            IF i >= FirstData /\ j >= FirstData
            THEN M2[i][j] - M1[IF DataRows(M1) = 1 THEN 2 ELSE i][IF DataCols(M1) = 1 THEN 2 ELSE j]
            ELSE D[i][j]]]

create_difference_array(h, slf, array_one_arg, array_two_arg) ==
    LET array_one == IF ~IsNone(array_one_arg) THEN array_one_arg ELSE slf.array_one
        array_two == IF ~IsNone(array_two_arg) THEN array_two_arg ELSE slf.array_two
    IN  IF array_two.t # "ref" \/ array_one.t # "ref" THEN Result(h, None, "TypeError")
        ELSE Strict(NpCopy(h, array_two.r), LAMBDA c :
             LET M1 == c.h[array_one.r]
                 M2 == c.h[array_two.r]
             IN  IF ~(Broadcasts(DataRows(M1), DataRows(M2)) /\ Broadcasts(DataCols(M1), DataCols(M2)))
                 THEN Result(c.h, None, "ValueError")
                 ELSE Result([c.h EXCEPT ![c.ref] = SubtractData(c.h[c.ref], M1, M2)],
                             Ref(c.ref), "none"))

RECURSIVE Flat(_)
\* the rows of a 2-D array one after the other
Flat(rows) == IF rows = <<>> THEN <<>> ELSE Head(rows) \o Flat(Tail(rows))

\* array[1:, 1:], flattened
DataCells(M) == Flat([i \in 1..DataRows(M) |-> Tail(M[i + 1])])

RECURSIVE Insert(_, _)
Insert(x, s) ==
    IF s = <<>> THEN <<x>>
    ELSE IF x <= Head(s) THEN <<x>> \o s ELSE <<Head(s)>> \o Insert(x, Tail(s))

RECURSIVE Sorted(_)
Sorted(s) == IF s = <<>> THEN <<>> ELSE Insert(Head(s), Sorted(Tail(s)))

\* twice np.median(cells): the middle cell, or the mean of the two middle cells
Median2(cells) ==
    LET s == Sorted(cells)
        n == Len(s)
    IN  IF n % 2 = 1 THEN 2 * s[(n + 1) \div 2] ELSE s[n \div 2] + s[n \div 2 + 1]

SeqMax(s) == CHOOSE x \in Range(s) : \A y \in Range(s) : y <= x
SeqMin(s) == CHOOSE x \in Range(s) : \A y \in Range(s) : x <= y

\* a cell is out of band: (cell > upperboundary) | (cell < lowerboundary); the bounds
\* are carried doubled, so that a median between two integers stays an integer
OutOfBand(cell, upper2, lower2) == 2 * cell > upper2 \/ 2 * cell < lower2

\* np.any(... array[:, 1:] ..., axis=1)
RowMask(M, upper2, lower2) ==
    [i \in 1..NRows(M) |-> \E j \in 2..NCols(M) : OutOfBand(M[i][j], upper2, lower2)]

\* np.any(... array[1:, :] ..., axis=0)
ColMask(M, upper2, lower2) ==
    [j \in 1..NCols(M) |-> \E i \in 2..NRows(M) : OutOfBand(M[i][j], upper2, lower2)]

Printed(h, v, e, out) == [h |-> h, ret |-> v, exc |-> e, out |-> out]

filter_all_over_diff(h, slf, array_arg, threshhold) ==
    \* process_input on an array that is already loaded: it has no toarray(), and
    \* np.load rejects it
    IF IsNone(array_arg) THEN Printed(h, None, "TypeError", None)
    ELSE IF ~IsNone(threshhold)
    THEN \* the bounds come from self.threshold; midpoint, max and min are never bound
         IF IsNone(slf.threshold) THEN Printed(h, None, "TypeError", None)
         ELSE Printed(h, None, "UnboundLocalError", None)
    ELSE LET M == h[array_arg.r]
         IN  Strict(DataCells(M), LAMBDA cells :
             IF cells = <<>> THEN Printed(h, None, "ValueError", None)
             ELSE Strict(Median2(cells), LAMBDA midpoint2 :
                  LET max == SeqMax(cells)
                      min == SeqMin(cells)
                      upperboundary2 == midpoint2 + max
                      lowerboundary2 == midpoint2 + min
                  IN  Strict(Alloc(h, MaskRowsCols(M, RowMask(M, upperboundary2, lowerboundary2),
                                                   ColMask(M, upperboundary2, lowerboundary2))),
                             LAMBDA f :
                                 Printed(f.h, Ref(f.ref), "none",
                                         [midpoint2 |-> midpoint2, max |-> max, min |-> min,
                                          upperboundary2 |-> upperboundary2,
                                          lowerboundary2 |-> lowerboundary2]))))

(***************************************************************************)
(* The clustering pipeline.  A replicate array is one heap object: a       *)
(* sequence of replicates, each a sequence of frames.  A frame carries its *)
(* cells, its number of dimensions, and how many times it was z-scored and *)
(* whitened: the normalizations are not computed, they are counted.        *)
(***************************************************************************)
\* frame.flatten()
flatten(f) == IF f.ndim = 2 THEN [f EXCEPT !.ndim = 1, !.cells = Flat(@)] ELSE f

\* scipy.stats.zscore(frame)
zs(f) == [f EXCEPT !.z = @ + 1]

NonZero(x) == x # 0

\* array[array != 0]: the cells that are not zero, as a 1-D array
format_array_for_whitening(f) ==
    [f EXCEPT !.ndim = 1, !.cells = SelectSeq(IF f.ndim = 2 THEN Flat(@) ELSE @, NonZero)]

\* scipy.cluster.vq.whiten(frame)
whiten(f) == [f EXCEPT !.w = @ + 1]

\* for idx in range(len(array)): array[idx] = array[idx].flatten()
format_traj_for_clust(r) == [r EXCEPT !.frames = [i \in 1..Len(@) |-> flatten(@[i])]]

format_replicate_for_clust(h, slf, array_arg) ==
    LET array == IF ~IsNone(array_arg) THEN array_arg ELSE slf.array_one
    IN  IF array.t # "ref" THEN Result(h, None, "TypeError")
        ELSE Result([h EXCEPT ![array.r] = [i \in 1..Len(@) |-> format_traj_for_clust(@[i])]],
                    array, "none")

whiten_frame(f) == whiten(format_array_for_whitening(f))

whiten_frames(r) == [r EXCEPT !.frames = [i \in 1..Len(@) |-> whiten_frame(@[i])]]

zscore_frames(r) == [r EXCEPT !.frames = [i \in 1..Len(@) |-> zs(@[i])]]

whiten_replicates_cluster(h, slf, array_arg) ==
    Strict(IF ~IsNone(array_arg) THEN Result(h, array_arg, "none")
           ELSE format_replicate_for_clust(h, slf, None), LAMBDA a :
        IF a.exc # "none" THEN a
        ELSE Result([a.h EXCEPT ![a.ret.r] = [i \in 1..Len(@) |-> whiten_frames(@[i])]],
                    a.ret, "none"))

zscore_replicates_cluster(h, slf, array_arg) ==
    Strict(IF ~IsNone(array_arg) THEN Result(h, array_arg, "none")
           ELSE format_replicate_for_clust(h, slf, None), LAMBDA a :
        IF a.exc # "none" THEN a
        ELSE Result([a.h EXCEPT ![a.ret.r] = [i \in 1..Len(@) |-> zscore_frames(@[i])]],
                    a.ret, "none"))

\* n = n if n is not None else 2
DefaultN == 2

\* np.empty((n, 2), dtype=object) with column 0 set to the labels 0..n-1
EmptyTable(n) == [j \in 1..n |-> <<j - 1, None>>]

create_empty_clustering_table(h, slf, array_arg, n_arg) ==
    LET n == IF ~IsNone(n_arg) THEN n_arg.n ELSE DefaultN
    IN  Strict(IF ~IsNone(array_arg) THEN Result(h, array_arg, "none")
               ELSE zscore_replicates_cluster(h, slf, None), LAMBDA a :
            IF a.exc # "none" THEN a
            ELSE Result(Append(a.h, EmptyTable(n)), Ref(Len(a.h) + 1), "none"))

\* the frames of a replicate do not all have the same length
Ragged(r) == \E i, j \in 1..Len(r.frames) : Len(r.frames[i].cells) # Len(r.frames[j].cells)

\* np.vstack(array[idx])
vstack(r) == [r EXCEPT !.stacked = TRUE]

\* k_or_guess of the two kmeans calls
KZ == 2
KW == 8

\* the first index of range(1, len(array))
RangeStart == 1

\* scipy.cluster.vq.kmeans(obs, k): the codebook has c centroids, 1 <= c <= k and
\* c <= the number of observations; which c, the data and the random start decide.
\* With fewer observations than k the call may also raise ValueError (c = 0).
KmeansOutcomes(r, k) ==
    {c \in 0..k : IF c = 0 THEN Len(r.frames) < k ELSE c <= Len(r.frames)}

\* the codebook of replicate idx (counted from 0): its c centroids
Codebook(idx, c) == [j \in 1..c |-> [t |-> "centroid", replicate |-> idx, centroid |-> j]]

RECURSIVE WriteCentroids(_, _, _)
\* for i in codebook: empty_table[j,1]=i; j+=1   (from row j on, counted from 0)
WriteCentroids(table, codebook, j) ==
    IF codebook = <<>> THEN [table |-> table, exc |-> "none"]
    ELSE IF j >= Len(table) THEN [table |-> table, exc |-> "IndexError"]
    ELSE WriteCentroids([table EXCEPT ![j + 1][2] = Head(codebook)], Tail(codebook), j + 1)

RECURSIVE ClustZLoop(_, _, _, _, _, _, _)
\* the loop of preform_clust_z from index idx (counted from 0) on
ClustZLoop(h, slf, array, n, idx, final_data_holder, oracle) ==
    IF idx >= Len(h[array.r]) THEN Result(h, final_data_holder, "none")
    ELSE Strict(create_empty_clustering_table(h, slf, None, Num(n)), LAMBDA e :
         IF e.exc # "none" THEN Result(e.h, None, e.exc)
         ELSE IF Ragged(e.h[array.r][idx + 1]) THEN Result(e.h, None, "ValueError")
         ELSE Strict([e.h EXCEPT ![array.r][idx + 1] = vstack(@)], LAMBDA h1 :
              IF oracle[idx + 1] = 0 THEN Result(h1, None, "ValueError")
              ELSE Strict(WriteCentroids(h1[e.ret.r], Codebook(idx, oracle[idx + 1]), 0), LAMBDA w :
                   Strict([h1 EXCEPT ![e.ret.r] = w.table], LAMBDA h2 :
                        IF w.exc # "none" THEN Result(h2, None, w.exc)
                        ELSE ClustZLoop(h2, slf, array, n, idx + 1,
                                        Append(final_data_holder, w.table), oracle)))))

preform_clust_z(h, slf, array_arg, n_arg, oracle) ==
    LET n == IF ~IsNone(n_arg) THEN n_arg.n ELSE DefaultN
    IN  Strict(IF ~IsNone(array_arg) THEN Result(h, array_arg, "none")
               ELSE zscore_replicates_cluster(h, slf, None), LAMBDA a :
            IF a.exc # "none" THEN a
            ELSE Strict(ClustZLoop(a.h, slf, a.ret, n, RangeStart, <<>>, oracle), LAMBDA l :
                 IF l.exc # "none" THEN l
                 \* np.array(final_data_holder, dtype=object)
                 ELSE Result(Append(l.h, l.ret), Ref(Len(l.h) + 1), "none")))

RECURSIVE ClustWLoop(_, _, _, _, _)
\* the loop of preform_clust_w from index idx (counted from 0) on; k_array is None
\* while the name is unbound
ClustWLoop(h, array, idx, k_array, oracle) ==
    IF idx >= Len(h[array.r]) THEN Result(h, k_array, "none")
    ELSE IF Ragged(h[array.r][idx + 1]) THEN Result(h, None, "ValueError")
    ELSE Strict([h EXCEPT ![array.r][idx + 1] = vstack(@)], LAMBDA h1 :
         IF oracle[idx + 1] = 0 THEN Result(h1, None, "ValueError")
         ELSE ClustWLoop(h1, array, idx + 1,
                         [t |-> "tuple", codebook |-> Codebook(idx, oracle[idx + 1]),
                          distortion |-> idx],
                         oracle))

preform_clust_w(h, slf, array_arg, n_arg, oracle) ==
    Strict(IF ~IsNone(array_arg) THEN Result(h, array_arg, "none")
           ELSE whiten_replicates_cluster(h, slf, None), LAMBDA a :
        IF a.exc # "none" THEN a
        ELSE Strict(ClustWLoop(a.h, a.ret, RangeStart, None, oracle), LAMBDA l :
             IF l.exc # "none" THEN l
             ELSE IF IsNone(l.ret) THEN Result(l.h, None, "UnboundLocalError")
             ELSE l))

\* what np.save writes: the object a reference names, else the value itself
Contents(h, v) == IF v.t = "ref" THEN [t |-> "array", v |-> h[v.r]] ELSE v

save_cluster_array(h, slf, ntype_arg, array_arg, oracle) ==
    LET ntype == IF ~IsNone(ntype_arg) THEN ntype_arg.n ELSE 0
    IN  Strict(IF ~IsNone(array_arg) \/ ntype \notin {0, 1} THEN Result(h, array_arg, "none")
               ELSE IF ntype = 0 THEN preform_clust_z(h, slf, None, None, oracle)
               ELSE preform_clust_w(h, slf, None, None, oracle), LAMBDA a :
            IF a.exc # "none" THEN [h |-> a.h, ret |-> None, exc |-> a.exc, saved |-> None]
            ELSE [h |-> a.h, ret |-> None, exc |-> "none",
                  saved |-> [t |-> "file", v |-> Contents(a.h, a.ret)]])

(***************************************************************************)
(* __init__ with topology=None: the arrays are loaded, the attributes set, *)
(* and, when residues_to_filter is given, both arrays are filtered and     *)
(* their difference is taken.                                              *)
(***************************************************************************)
Construct(A, B, rtf_in, th) ==
    LET h0 == IF rtf_in.t = "list" THEN <<A, B, rtf_in.v>> ELSE <<A, B>>
        rtf == IF rtf_in.t = "list" THEN Ref(3) ELSE rtf_in
        s0 == [array_one |-> Ref(1), array_two |-> Ref(2),
               residues_to_filter |-> rtf, threshold |-> th,
               filtered_one |-> None, filtered_two |-> None, filtered_diff |-> None]
    IN  IF IsNone(rtf) THEN [h |-> h0, pre |-> h0, slf |-> s0, exc |-> "none"]
        ELSE Strict(filter_array(h0, s0, s0.array_one, None), LAMBDA f1 :
             Strict(filter_array(f1.h, s0, s0.array_two, None), LAMBDA f2 :
             Strict(create_difference_array(f2.h, s0, f1.ret, f2.ret), LAMBDA fd :
                 [h |-> fd.h, pre |-> h0,
                  slf |-> [s0 EXCEPT !.filtered_one = f1.ret, !.filtered_two = f2.ret,
                                     !.filtered_diff = fd.ret],
                  exc |-> IF f1.exc # "none" THEN f1.exc
                          ELSE IF f2.exc # "none" THEN f2.exc ELSE fd.exc])))

\* __init__(array_one=...) with every other argument left out: array_two is the
\* argument as it was passed (a path), not the loaded array
ConstructOne(a1) ==
    LET blank == [array_one |-> None, array_two |-> None,
                  residues_to_filter |-> None, threshold |-> None,
                  filtered_one |-> None, filtered_two |-> None, filtered_diff |-> None]
    IN  IF IsNone(a1) THEN [h |-> <<>>, pre |-> <<>>, slf |-> blank, exc |-> "none"]
        ELSE [h |-> <<a1.v>>, pre |-> <<a1.v>>,
              slf |-> [blank EXCEPT !.array_one = Ref(1), !.array_two = Str("path")],
              exc |-> "none"]

(***************************************************************************)
(* The inputs of the filtering and difference stages.                      *)
(***************************************************************************)
Ascending(s) == \A i \in 1..(Len(s) - 1) : s[i] < s[i + 1]

\* the label vectors of a matrix of n residues: ascending residue indices
LabelVectors(n) == {s \in [1..n -> 1..MaxLabel] : Ascending(s)}

\* a matrix with the marker 0 at [0,0], labels on row 0 and column 0, and data cells
\* that differ by position
Matrix(labels) ==
    [i \in 1..(Len(labels) + 1) |->
        [j \in 1..(Len(labels) + 1) |->
            IF i = 1 /\ j = 1 THEN 0
            ELSE IF i = 1 THEN labels[j - 1]
            ELSE IF j = 1 THEN labels[i - 1]
            ELSE 10 * (i - 1) + (j - 1)]]

Matrices == {Matrix(l) : l \in UNION {LabelVectors(n) : n \in 1..MaxRes}}

\* the same labels, every data cell equal to v
Uniform(M, v) ==
    [i \in 1..Len(M) |-> [j \in 1..Len(M[i]) |-> IF i >= 2 /\ j >= 2 THEN v ELSE M[i][j]]]

\* the same labels, the data cells transposed and shifted by one
Transposed(M) ==
    [i \in 1..Len(M) |-> [j \in 1..Len(M[i]) |-> IF i >= 2 /\ j >= 2 THEN M[j][i] + 1 ELSE M[i][j]]]

SecondMatrices(M) == {Uniform(M, 3), Transposed(M)}

Descending(s) == \A i \in 1..(Len(s) - 1) : s[i] > s[i + 1]

\* residue lists: selections of labels in ascending or descending order
ResidueLists ==
    {s \in UNION {[1..n -> 1..MaxLabel] : n \in 0..MaxLabel} : Ascending(s) \/ Descending(s)}

StoredResidues == {None, Str("ALL")} \cup {NewList(s) : s \in {l \in ResidueLists : Ascending(l)}}

ResidueArgs == {None, Str("ALL")} \cup {NewList(s) : s \in ResidueLists}

\* the arrays a caller passes: none (the stored array_one), or one the manipulator holds
ArrayArgs == {None, self.array_two, self.filtered_one, self.filtered_two}

FilterArrayArgs == {None, self.filtered_two}

Max(S) == CHOOSE x \in S : \A y \in S : y <= x

\* the objects the manipulator holds: those the constructor made
NBase(slf) ==
    Max({0} \cup {slf[f].r : f \in {g \in {"array_one", "array_two", "residues_to_filter",
                                           "filtered_one", "filtered_two", "filtered_diff"} :
                                    slf[g].t = "ref"}})

Base(h, slf) == SubSeq(h, 1, NBase(slf))

InitWith(c) ==
    /\ heap = c.h
    /\ pre = c.pre
    /\ self = c.slf
    /\ op = "__init__"
    /\ args = None
    /\ ret = None
    /\ exc = c.exc
    /\ stdout = None
    /\ saved = None

Init ==
    \E A \in Matrices : \E B \in SecondMatrices(A) : \E r \in StoredResidues :
        \E c \in {Construct(A, B, r, None)} : InitWith(c)

\* the caller's list becomes a heap object before the call
PassList(h, r) ==
    IF r.t = "list" THEN [h |-> Append(h, r.v), v |-> Ref(Len(h) + 1)] ELSE [h |-> h, v |-> r]

Called(name, a, h0, res) ==
    /\ heap' = res.h
    /\ pre' = h0
    /\ op' = name
    /\ args' = a
    /\ ret' = res.ret
    /\ exc' = res.exc

FilterArray ==
    \E a \in FilterArrayArgs : \E r \in ResidueArgs :
        \E p \in {PassList(Base(heap, self), r)} : \E res \in {filter_array(p.h, self, a, p.v)} :
            /\ Called("filter_array", [array |-> a, residues_to_filter |-> p.v], p.h, res)
            /\ UNCHANGED <<self, stdout, saved>>

CreateDifferenceArray ==
    \E a1 \in ArrayArgs : \E a2 \in ArrayArgs :
        \E h0 \in {Base(heap, self)} : \E res \in {create_difference_array(h0, self, a1, a2)} :
            /\ Called("create_difference_array", [array_one |-> a1, array_two |-> a2], h0, res)
            /\ UNCHANGED <<self, stdout, saved>>

Next == FilterArray \/ CreateDifferenceArray

Spec == Init /\ [][Next]_vars

(***************************************************************************)
(* Threshold filtering: the manipulator is built on one matrix, with or    *)
(* without a stored threshold.                                             *)
(***************************************************************************)
DataValues == {-2, 1, 3}

\* labels 1..MaxRes in order, every data cell one of DataValues
ThresholdMatrices ==
    {[i \in 1..(MaxRes + 1) |->
        [j \in 1..(MaxRes + 1) |->
            IF i = 1 /\ j = 1 THEN 0
            ELSE IF i = 1 THEN j - 1
            ELSE IF j = 1 THEN i - 1
            ELSE d[i - 1][j - 1]]] : d \in [1..MaxRes -> [1..MaxRes -> DataValues]]}

Thresholds == {None, Num(1), Num(2)}

InitThreshold ==
    \E A \in ThresholdMatrices : \E th \in Thresholds :
        \E c \in {Construct(A, A, None, th)} : InitWith(c)

FilterAllOverDiff ==
    \E a \in {None, self.array_one} : \E t \in Thresholds :
        \E h0 \in {Base(heap, self)} : \E res \in {filter_all_over_diff(h0, self, a, t)} :
            /\ Called("filter_all_over_diff", [array |-> a, threshhold |-> t], h0, res)
            /\ stdout' = res.out
            /\ UNCHANGED <<self, saved>>

NextThreshold == FilterAllOverDiff

SpecThreshold == InitThreshold /\ [][NextThreshold]_vars

(***************************************************************************)
(* Clustering: the manipulator is built on a replicate array, or on none.  *)
(***************************************************************************)
\* one-residue interaction matrices: the marker, the label, one data cell
FrameData == {<<<<0, 1>>, <<1, 5>>>>, <<<<0, 1>>, <<1, 0>>>>}

Frame(cells) == [ndim |-> 2, cells |-> cells, z |-> 0, w |-> 0]

Replicates == {[frames |-> f, stacked |-> FALSE] :
                  f \in [1..MaxFrames -> {Frame(c) : c \in FrameData}]}

ReplicateArrays == UNION {[1..r -> Replicates] : r \in 1..MaxRep}

\* an array the caller prepared: r replicates, flattened and z-scored once
PreparedArray(r) ==
    [i \in 1..r |->
        zscore_frames(format_traj_for_clust(
            [frames |-> [f \in 1..MaxFrames |-> Frame(<<<<0, 1>>, <<1, 5>>>>)],
             stacked |-> FALSE]))]

ClusterArrayArgs == {None} \cup {[t |-> "new", v |-> PreparedArray(r)] : r \in 1..MaxRep}

\* the caller's array becomes a heap object before the call
PassArray(h, a) ==
    IF a.t = "new" THEN [h |-> Append(h, a.v), v |-> Ref(Len(h) + 1)] ELSE [h |-> h, v |-> a]

\* the cluster counts a caller asks for: none (the default), or one that is not the default
NArgs == {None} \cup {Num(n) : n \in (1..MaxN) \ {DefaultN}}

\* the outcomes of the kmeans calls on the array to be clustered, one per replicate
\* (that of a replicate the loop does not reach is left at 1)
Oracles(h, slf, array, k) ==
    LET a == IF ~IsNone(array) THEN array ELSE slf.array_one
    IN  IF a.t # "ref" THEN {<<>>}
        ELSE {o \in [1..Len(h[a.r]) -> 0..MaxFrames] :
                 \A i \in 1..Len(h[a.r]) :
                     IF i <= RangeStart THEN o[i] = 1 ELSE o[i] \in KmeansOutcomes(h[a.r][i], k)}

\* no frame of the stored array was normalized more than MaxNorm times
WithinNorm(h, slf) ==
    slf.array_one.t = "ref" =>
        \A i \in 1..Len(h[1]) : \A j \in 1..Len(h[1][i].frames) :
            h[1][i].frames[j].z <= MaxNorm /\ h[1][i].frames[j].w <= MaxNorm

\* the script saves the cluster array and exits: nothing is called after a save
Running == IsNone(saved)

InitCluster ==
    \E a \in {None} \cup {[t |-> "new", v |-> r] : r \in ReplicateArrays} :
        InitWith(ConstructOne(a))

CreateEmptyClusteringTable ==
    \E n \in NArgs :
        \E h0 \in {Base(heap, self)} :
        \E res \in {create_empty_clustering_table(h0, self, None, n)} :
            /\ Running
            /\ WithinNorm(res.h, self)
            /\ Called("create_empty_clustering_table", [array |-> None, n |-> n], h0, res)
            /\ UNCHANGED <<self, stdout, saved>>

PreformClustZ ==
    \E a \in ClusterArrayArgs : \E n \in NArgs :
        \E p \in {PassArray(Base(heap, self), a)} :
            \E oracle \in Oracles(p.h, self, p.v, KZ) :
                \E res \in {preform_clust_z(p.h, self, p.v, n, oracle)} :
                    /\ Running
                    /\ WithinNorm(res.h, self)
                    /\ Called("preform_clust_z", [array |-> p.v, n |-> n], p.h, res)
                    /\ UNCHANGED <<self, stdout, saved>>

PreformClustW ==
    \E a \in ClusterArrayArgs :
        \E p \in {PassArray(Base(heap, self), a)} :
            \E oracle \in Oracles(p.h, self, p.v, KW) :
                \E res \in {preform_clust_w(p.h, self, p.v, None, oracle)} :
                    /\ Running
                    /\ WithinNorm(res.h, self)
                    /\ Called("preform_clust_w", [array |-> p.v, n |-> None], p.h, res)
                    /\ UNCHANGED <<self, stdout, saved>>

\* save_cluster_array(ntype) run as the script runs it, with out_GCU defined
SaveClusterArray ==
    \E ntype \in {None, Num(0), Num(1)} :
        \E h0 \in {Base(heap, self)} :
            \E oracle \in Oracles(h0, self, None, IF ~IsNone(ntype) /\ ntype.n = 1 THEN KW ELSE KZ) :
                \E res \in {save_cluster_array(h0, self, ntype, None, oracle)} :
                    /\ Running
                    /\ WithinNorm(res.h, self)
                    /\ Called("save_cluster_array", [ntype |-> ntype, array |-> None], h0, res)
                    /\ saved' = IF res.exc = "none" THEN res.saved ELSE saved
                    /\ UNCHANGED <<self, stdout>>

NextCluster ==
    \/ CreateEmptyClusteringTable
    \/ PreformClustZ
    \/ PreformClustW
    \/ SaveClusterArray

SpecCluster == InitCluster /\ [][NextCluster]_vars

(***************************************************************************)
(* What the last call worked on, read from the heap as the call found it.  *)
(***************************************************************************)
\* the residue selection in effect: the argument, else the stored one
GivenResidues == IF ~IsNone(args.residues_to_filter) THEN args.residues_to_filter
                 ELSE self.residues_to_filter

\* the array in effect: the argument, else the stored array_one
GivenArray == IF ~IsNone(args.array) THEN args.array ELSE self.array_one

Min(S) == CHOOSE x \in S : \A y \in S : x <= y

RECURSIVE InOrder(_)
\* the members of a set of indices, smallest first
InOrder(S) == IF S = {} THEN <<>> ELSE <<Min(S)>> \o InOrder(S \ {Min(S)})

\* the positions of a label vector whose label is selected by S or is the marker 0
Kept(labels, S) == InOrder({i \in 1..Len(labels) : labels[i] \in Range(S) \cup {0}})

\* the sub-matrix of M on the kept rows and columns
SubMatrix(M, S) ==
    LET rows == Kept(Column0(M), S)
        cols == Kept(Row0(M), S)
    IN  [a \in 1..Len(rows) |-> [b \in 1..Len(cols) |-> M[rows[a]][cols[b]]]]

FilteredWithList == op = "filter_array" /\ GivenResidues.t = "ref" /\ GivenArray.t = "ref"

C2_FilterAllIsIdentity ==
    (op = "filter_array" /\ IsALL_exact(GivenResidues)) =>
        /\ exc = "none"
        /\ ret = GivenArray
        /\ heap[ret.r] = pre[ret.r]

\* a filter_array call given "ALL" and an explicit array
C2_Witness ==
    /\ op = "filter_array"
    /\ IsALL_exact(args.residues_to_filter)
    /\ ~IsNone(args.array)
    /\ ret = args.array

IsData(i, j) == i >= 2 /\ j >= 2

\* a create_difference_array call with the arguments of the constructor's call swapped
SwappedDifference ==
    /\ op = "create_difference_array"
    /\ ~IsNone(self.filtered_diff)
    /\ args.array_one = self.filtered_two
    /\ args.array_two = self.filtered_one

\* C3: for same-shape matrices A and B with identical labels, every data cell of
\* diff(B, A) is the negation of the same cell of diff(A, B), and the label row and
\* label column of the result are those of the inputs.
C3_DifferenceAntiSymmetric ==
    SwappedDifference =>
        /\ exc = "none"
        /\ ret.t = "ref"
        /\ LET R == heap[ret.r]
               D == heap[self.filtered_diff.r]
               A == pre[self.filtered_one.r]
               B == pre[self.filtered_two.r]
           IN  /\ Len(R) = Len(D) /\ Len(R) = Len(A)
               /\ \A i \in 1..Len(R) :
                     /\ Len(R[i]) = Len(D[i]) /\ Len(R[i]) = Len(A[i])
                     /\ \A j \in 1..Len(R[i]) :
                           IF IsData(i, j) THEN R[i][j] = 0 - D[i][j]
                           ELSE R[i][j] = A[i][j] /\ R[i][j] = B[i][j] /\ R[i][j] = D[i][j]

\* a swapped difference call on matrices with data cells, some of them not zero
C3_Witness ==
    /\ SwappedDifference
    /\ exc = "none"
    /\ Len(heap[ret.r]) >= 3
    /\ heap[ret.r][2][2] # 0
    /\ heap[ret.r][2][3] # heap[ret.r][3][2]

\* C9: a call of filter_array or create_difference_array, those of the constructor
\* included, changes neither the stored residue list nor any array or list passed to
\* it: every object alive when the call started is as it was.
C9_InputsUnchanged ==
    op \in {"__init__", "filter_array", "create_difference_array"} =>
        /\ Len(heap) >= Len(pre)
        /\ \A r \in 1..Len(pre) : heap[r] = pre[r]

\* a filter_array call that used the stored, non-empty residue list and returned,
\* after the constructor had used it twice
C9_Witness ==
    /\ op = "filter_array"
    /\ exc = "none"
    /\ IsNone(args.residues_to_filter)
    /\ self.residues_to_filter.t = "ref"
    /\ Len(heap[self.residues_to_filter.r]) >= 2
    /\ ~IsNone(self.filtered_two)

\* the rows and columns of M with at least one data-side cell outside [-t, t]
OutsideSubMatrix(M, t) ==
    MaskRowsCols(M,
        [i \in 1..NRows(M) |-> \E j \in 2..NCols(M) : M[i][j] > t \/ M[i][j] < 0 - t],
        [j \in 1..NCols(M) |-> \E i \in 2..NRows(M) : M[i][j] > t \/ M[i][j] < 0 - t])

\* C4: filter_all_over_diff(M, t) with an explicit threshold t completes and returns
\* the sub-matrix of M made of the rows and columns with at least one cell outside
\* [-t, t], t being the value given in the call.
C4_ExplicitThresholdFilters ==
    (op = "filter_all_over_diff" /\ ~IsNone(args.array) /\ ~IsNone(args.threshhold)) =>
        /\ exc = "none"
        /\ ret.t = "ref"
        /\ heap[ret.r] = OutsideSubMatrix(pre[args.array.r], args.threshhold.n)

\* C8: without an explicit threshold the bounds printed by filter_all_over_diff are
\* computed from the data cells only and lie around their median:
\* lowerboundary <= median <= upperboundary.
C8_BandAroundMedian ==
    (op = "filter_all_over_diff" /\ ~IsNone(args.array) /\ IsNone(args.threshhold)
        /\ exc = "none") =>
        /\ stdout.midpoint2 = Median2(DataCells(pre[args.array.r]))
        /\ stdout.lowerboundary2 <= stdout.midpoint2
        /\ stdout.midpoint2 <= stdout.upperboundary2

\* the array the last clustering call worked on, as the call found it
GivenReplicates == pre[(IF ~IsNone(args.array) THEN args.array ELSE self.array_one).r]

\* C5: preform_clust_z over R replicates runs k-means once for every replicate and
\* returns exactly R cluster tables, the i-th holding the centroids of the i-th
\* replicate.
C5_OneTablePerReplicate ==
    (op = "preform_clust_z" /\ exc = "none") =>
        /\ Len(heap[ret.r]) = Len(GivenReplicates)
        /\ \A i \in 1..Len(heap[ret.r]) :
              \A j \in 1..Len(heap[ret.r][i]) :
                  ~IsNone(heap[ret.r][i][j][2]) => heap[ret.r][i][j][2].replicate = i - 1

\* C6: for the same R replicates preform_clust_w and preform_clust_z both return a
\* collection with one clustering result per replicate, and save_cluster_array writes
\* results for all replicates whether ntype is 0 or 1.
C6_StrategiesInterchangeable ==
    /\ (op \in {"preform_clust_w", "preform_clust_z"}) =>
          /\ exc # "UnboundLocalError"
          /\ exc = "none" => (ret.t = "ref" /\ Len(heap[ret.r]) = Len(GivenReplicates))
    /\ (op = "save_cluster_array" /\ exc = "none") =>
          (saved.v.t = "array" /\ Len(saved.v.v) = Len(GivenReplicates))

\* the cluster count of the last call
GivenN == IF ~IsNone(args.n) THEN args.n.n ELSE DefaultN

\* C7: each table returned by preform_clust_z(n) has exactly n rows, row j carries
\* label j, and every row carries a centroid; no centroid is written past the last row.
C7_TableRowsAllFilled ==
    op = "preform_clust_z" =>
        /\ exc # "IndexError"
        /\ exc = "none" =>
              \A i \in 1..Len(heap[ret.r]) :
                  LET T == heap[ret.r][i]
                  IN  /\ Len(T) = GivenN
                      /\ \A j \in 1..Len(T) : T[j][1] = j - 1 /\ ~IsNone(T[j][2])

\* every frame of the stored array was z-scored exactly once more by the last call
ZScoredOnce ==
    \A i \in 1..Len(heap[1]) : \A j \in 1..Len(heap[1][i].frames) :
        heap[1][i].frames[j].z = pre[1][i].frames[j].z + 1

\* C10: create_empty_clustering_table(n) depends only on n and neither needs nor
\* changes the stored array_one; preform_clust_z normalizes each frame exactly once,
\* and on an explicitly passed array it neither needs nor touches array_one.
C10_TableBuildingLeavesData ==
    /\ op = "create_empty_clustering_table" =>
          /\ exc = "none"
          /\ heap[ret.r] = EmptyTable(GivenN)
          /\ \A r \in 1..Len(pre) : heap[r] = pre[r]
    /\ (op = "preform_clust_z" /\ IsNone(args.array) /\ exc = "none") => ZScoredOnce
    /\ (op = "preform_clust_z" /\ ~IsNone(args.array)) =>
          /\ exc # "TypeError"
          /\ self.array_one.t = "ref" => heap[1] = pre[1]

====
